---- MODULE Spec2Model ----
(***************************************************************************)
(* Model of the directed-graph container of src/src/lib.rs: Graph<T> with  *)
(* its identifier counter, its node vector, the mutation operations, the   *)
(* depth-first traversal and the TGF text codec.  The payload type T is    *)
(* String; text is modelled as a sequence of one-character strings.        *)
(***************************************************************************)
EXTENDS Integers, Sequences, FiniteSets, TLC

VARIABLES next_id, nodes, live, op, ret, ever, walk

vars == << next_id, nodes, live, op, ret, ever, walk >>

(***************************************************************************)
(* Bounds of the exploration.                                              *)
(***************************************************************************)
MaxNodes == 3
MaxNextId == 3
MaxEdges == 2
MaxFileLines == 4

(* The payload handed to add_node; the files hold a second payload, one
   that is escaped in the text. *)
Data == { << "c" >> }

(* Identifiers handed to the operations: every one that can be assigned,
   and one that never is. *)
Ids == 0 .. MaxNextId

(***************************************************************************)
(* Vec helpers.                                                            *)
(***************************************************************************)
Range(s) == { s[i] : i \in 1 .. Len(s) }

(* Vec::contains *)
vec_contains(s, x) == \E i \in 1 .. Len(s) : s[i] = x

(* Vec::remove(index), index counted from 1 here *)
vec_remove(s, i) == [ k \in 1 .. Len(s) - 1 |-> IF k < i THEN s[k] ELSE s[k + 1] ]

(***************************************************************************)
(* Node<T>                                                                 *)
(***************************************************************************)
Node_new(id, data) == [ id |-> id, data |-> data, paths |-> << >> ]

(* add_path without the contains test *)
add_path_push(paths, id) == Append(paths, id)

(* add_path that inserts at the front *)
add_path_front(paths, id) == IF ~ vec_contains(paths, id) THEN << id >> \o paths ELSE paths

add_path(paths, id) == IF ~ vec_contains(paths, id) THEN Append(paths, id) ELSE paths

(* iter().position(|&x| x == path): first index, 0 when there is none *)
path_position(paths, path) ==
  IF vec_contains(paths, path)
  THEN CHOOSE i \in 1 .. Len(paths) :
         paths[i] = path /\ \A k \in 1 .. i - 1 : paths[k] # path
  ELSE 0

(* remove_path with position(..).unwrap_or(0) *)
remove_path_or_first(paths, path) ==
  IF paths = << >> THEN paths
  ELSE IF path_position(paths, path) # 0
       THEN vec_remove(paths, path_position(paths, path))
       ELSE vec_remove(paths, 1)

remove_path(paths, path) ==
  IF path_position(paths, path) # 0
  THEN vec_remove(paths, path_position(paths, path))
  ELSE paths

(***************************************************************************)
(* Graph<T>: the mutation operations as functions of the container.        *)
(***************************************************************************)
Graph(n, ns) == [ next_id |-> n, nodes |-> ns ]

Graph_new == Graph(0, << >>)

contains(ns, node_id) == \E i \in 1 .. Len(ns) : ns[i].id = node_id

(* nodes.iter().position(|x| x.id() == id): first index, 0 when none *)
position(ns, id) ==
  IF contains(ns, id)
  THEN CHOOSE i \in 1 .. Len(ns) :
         ns[i].id = id /\ \A k \in 1 .. i - 1 : ns[k].id # id
  ELSE 0

Result(kind, val, g) == [ kind |-> kind, val |-> val, g |-> g ]

(* add_node that takes the length of the vector as the identifier *)
add_node_len(g, data) ==
  Result("Ok", << Len(g.nodes) >>,
         Graph(g.next_id + 1, Append(g.nodes, Node_new(Len(g.nodes), data))))

(* add_node that stores the new node first *)
add_node_front(g, data) ==
  Result("Ok", << g.next_id >>,
         Graph(g.next_id + 1, << Node_new(g.next_id, data) >> \o g.nodes))

add_node(g, data) ==
  Result("Ok", << g.next_id >>,
         Graph(g.next_id + 1, Append(g.nodes, Node_new(g.next_id, data))))

(* remove_node without the loop that strips the adjacency lists *)
remove_node_keep_paths(g, node_id) ==
  IF contains(g.nodes, node_id)
  THEN Result("Ok", << >>, Graph(g.next_id, vec_remove(g.nodes, position(g.nodes, node_id))))
  ELSE Result("IdNotExist", << >>, g)

(* remove_node that removes the node at index node_id *)
remove_node_by_index(g, node_id) ==
  IF contains(g.nodes, node_id)
  THEN LET stripped == [ i \in 1 .. Len(g.nodes) |->
                           IF g.nodes[i].id # node_id
                           THEN [ g.nodes[i] EXCEPT !.paths = remove_path(@, node_id) ]
                           ELSE g.nodes[i] ]
       IN  Result("Ok", << >>,
                  Graph(g.next_id,
                        IF node_id < Len(stripped)
                        THEN vec_remove(stripped, node_id + 1) ELSE stripped))
  ELSE Result("IdNotExist", << >>, g)

remove_node(g, node_id) ==
  IF contains(g.nodes, node_id)
  THEN LET stripped == [ i \in 1 .. Len(g.nodes) |->
                           IF g.nodes[i].id # node_id
                           THEN [ g.nodes[i] EXCEPT !.paths = remove_path(@, node_id) ]
                           ELSE g.nodes[i] ]
           index == position(stripped, node_id)
       IN  Result("Ok", << >>,
                  Graph(g.next_id,
                        IF index # 0 THEN vec_remove(stripped, index) ELSE stripped))
  ELSE Result("IdNotExist", << >>, g)

(* add_edge that tests only the source identifier *)
add_edge_from_only(g, from, to) ==
  IF contains(g.nodes, from)
  THEN Result("Ok", << >>,
              Graph(g.next_id,
                    [ g.nodes EXCEPT ![position(g.nodes, from)].paths = add_path(@, to) ]))
  ELSE Result("IdNotExist", << >>, g)

add_edge(g, from, to) ==
  IF contains(g.nodes, from) /\ contains(g.nodes, to)
  THEN LET index == position(g.nodes, from)
       IN  Result("Ok", << >>,
                  Graph(g.next_id,
                        IF index # 0
                        THEN [ g.nodes EXCEPT ![index].paths = add_path(@, to) ]
                        ELSE g.nodes))
  ELSE Result("IdNotExist", << >>, g)

remove_edge(g, from, to) ==
  IF contains(g.nodes, from) /\ contains(g.nodes, to)
  THEN LET index == position(g.nodes, from)
       IN  Result("Ok", << >>,
                  Graph(g.next_id,
                        IF index # 0
                        THEN [ g.nodes EXCEPT ![index].paths = remove_path(@, to) ]
                        ELSE g.nodes))
  ELSE Result("IdNotExist", << >>, g)

(***************************************************************************)
(* Text: decimal formatting and parsing, the JSON encoding of a String     *)
(* payload, line splitting, the node-line pattern.                         *)
(***************************************************************************)
DigitChars == << "0", "1", "2", "3", "4", "5", "6", "7", "8", "9" >>

IsDigit(c) == \E d \in 1 .. 10 : DigitChars[d] = c

DigitVal(c) == (CHOOSE d \in 1 .. 10 : DigitChars[d] = c) - 1

(* \s of the pattern, and the separators of split_whitespace *)
IsSpace(c) == c \in { " ", "\t", "\r", "\f" }

RECURSIVE fmt_usize(_)
(* format!("{}", id) *)
fmt_usize(n) ==
  IF n < 10 THEN << DigitChars[n + 1] >>
  ELSE fmt_usize(n \div 10) \o << DigitChars[(n % 10) + 1] >>

RECURSIVE digits_value(_, _)
digits_value(s, acc) ==
  IF s = << >> THEN acc ELSE digits_value(Tail(s), acc * 10 + DigitVal(Head(s)))

(* str::parse::<usize>: an optional '+', then one or more decimal digits *)
parse_usize(s) ==
  LET body == IF s # << >> /\ Head(s) = "+" THEN Tail(s) ELSE s
  IN  IF body # << >> /\ \A i \in 1 .. Len(body) : IsDigit(body[i])
      THEN [ ok |-> TRUE, val |-> digits_value(body, 0) ]
      ELSE [ ok |-> FALSE, val |-> 0 ]

RECURSIVE json_escape(_)
json_escape(s) ==
  IF s = << >> THEN << >>
  ELSE (CASE Head(s) = "\"" -> << "\\", "\"" >>
          [] Head(s) = "\\" -> << "\\", "\\" >>
          [] Head(s) = "\n" -> << "\\", "n" >>
          [] Head(s) = "\r" -> << "\\", "r" >>
          [] Head(s) = "\t" -> << "\\", "t" >>
          [] Head(s) = "\f" -> << "\\", "f" >>
          [] OTHER -> << Head(s) >>) \o json_escape(Tail(s))

(* to_string that does not escape *)
json_to_string_raw(data) == << "\"" >> \o data \o << "\"" >>

(* serde_json::to_string(&String) *)
json_to_string(data) == << "\"" >> \o json_escape(data) \o << "\"" >>

IsJsonSpace(c) == c \in { " ", "\t", "\n", "\r" }

RECURSIVE skip_json_space(_)
skip_json_space(s) ==
  IF s # << >> /\ IsJsonSpace(Head(s)) THEN skip_json_space(Tail(s)) ELSE s

RECURSIVE json_string_body(_, _)
(* the characters after the opening quote: the decoded string and what
   follows the closing quote *)
json_string_body(s, acc) ==
  IF s = << >> THEN [ ok |-> FALSE, val |-> << >>, rest |-> << >> ]
  ELSE IF Head(s) = "\"" THEN [ ok |-> TRUE, val |-> acc, rest |-> Tail(s) ]
  ELSE IF Head(s) \in { "\n", "\r", "\t", "\f" }
       THEN [ ok |-> FALSE, val |-> << >>, rest |-> << >> ]
  ELSE IF Head(s) = "\\"
       THEN IF Len(s) < 2 THEN [ ok |-> FALSE, val |-> << >>, rest |-> << >> ]
            ELSE LET e == s[2]
                     t == SubSeq(s, 3, Len(s))
                 IN  CASE e = "\"" -> json_string_body(t, Append(acc, "\""))
                       [] e = "\\" -> json_string_body(t, Append(acc, "\\"))
                       [] e = "/"  -> json_string_body(t, Append(acc, "/"))
                       [] e = "n"  -> json_string_body(t, Append(acc, "\n"))
                       [] e = "r"  -> json_string_body(t, Append(acc, "\r"))
                       [] e = "t"  -> json_string_body(t, Append(acc, "\t"))
                       [] e = "f"  -> json_string_body(t, Append(acc, "\f"))
                       [] OTHER    -> [ ok |-> FALSE, val |-> << >>, rest |-> << >> ]
  ELSE json_string_body(Tail(s), Append(acc, Head(s)))

(* serde_json::from_str::<String> *)
json_from_str(s) ==
  LET t == skip_json_space(s)
  IN  IF t = << >> \/ Head(t) # "\"" THEN [ ok |-> FALSE, val |-> << >> ]
      ELSE LET b == json_string_body(Tail(t), << >>)
           IN  IF b.ok /\ skip_json_space(b.rest) = << >>
               THEN [ ok |-> TRUE, val |-> b.val ]
               ELSE [ ok |-> FALSE, val |-> << >> ]

RECURSIVE take_line(_, _)
(* the characters of s up to the first newline, and what follows it *)
take_line(s, acc) ==
  IF s = << >> THEN [ line |-> acc, rest |-> << >> ]
  ELSE IF Head(s) = "\n" THEN [ line |-> acc, rest |-> Tail(s) ]
  ELSE take_line(Tail(s), Append(acc, Head(s)))

RECURSIVE lines(_)
(* BufRead::lines: split at '\n', drop a '\r' that precedes it *)
lines(s) ==
  IF s = << >> THEN << >>
  ELSE LET t == take_line(s, << >>)
           l == IF t.line # << >> /\ t.line[Len(t.line)] = "\r"
                   /\ Len(t.line) < Len(s)
                THEN SubSeq(t.line, 1, Len(t.line) - 1) ELSE t.line
       IN  << l >> \o lines(t.rest)

RECURSIVE split_from(_, _, _)
split_from(s, cur, acc) ==
  IF s = << >> THEN (IF cur = << >> THEN acc ELSE Append(acc, cur))
  ELSE IF IsSpace(Head(s)) \/ Head(s) = "\n"
       THEN split_from(Tail(s), << >>, IF cur = << >> THEN acc ELSE Append(acc, cur))
  ELSE split_from(Tail(s), Append(cur, Head(s)), acc)

(* str::split_whitespace *)
split_whitespace(s) == split_from(s, << >>, << >>)

(* the end of the run of digits that starts at i *)
RECURSIVE digits_end(_, _)
digits_end(s, i) ==
  IF i < Len(s) /\ IsDigit(s[i + 1]) THEN digits_end(s, i + 1) ELSE i

(* Regex (\d+)\s(.+), unanchored: the leftmost run of digits followed by a
   whitespace character and at least one more character *)
re_node_match(item, i) ==
  /\ IsDigit(item[i])
  /\ digits_end(item, i) + 2 <= Len(item)
  /\ IsSpace(item[digits_end(item, i) + 1])

re_node_captures(item) ==
  IF \E i \in 1 .. Len(item) : re_node_match(item, i)
  THEN LET i == CHOOSE i \in 1 .. Len(item) :
                  re_node_match(item, i) /\ \A k \in 1 .. i - 1 : ~ re_node_match(item, k)
           j == digits_end(item, i)
       IN  [ ok |-> TRUE, c1 |-> SubSeq(item, i, j), c2 |-> SubSeq(item, j + 2, Len(item)) ]
  ELSE [ ok |-> FALSE, c1 |-> << >>, c2 |-> << >> ]

(***************************************************************************)
(* Graph::from_tgf_file.  The loop state is the locals nodes, node_ids and *)
(* after; kind is "Run" while the loop goes on, "TgfError" after a         *)
(* return Err, "Panic" after a failed unwrap.                              *)
(***************************************************************************)
NoFile == << "no such file" >>

tgf_start == [ kind |-> "Run", nodes |-> << >>, node_ids |-> << >>, after |-> TRUE ]

tgf_stop(st, kind) == [ st EXCEPT !.kind = kind ]

(* a line before the separator *)
tgf_node_line(st, item) ==
  LET caps == re_node_captures(item)
      id   == parse_usize(caps.c1)
      data == json_from_str(caps.c2)
  IN  IF ~ caps.ok \/ ~ id.ok THEN tgf_stop(st, "Panic")
      ELSE IF ~ data.ok
           THEN tgf_stop([ st EXCEPT !.node_ids = Append(@, id.val) ], "Panic")
      ELSE IF contains(st.nodes, id.val)
           THEN tgf_stop([ st EXCEPT !.node_ids = Append(@, id.val) ], "TgfError")
      ELSE [ st EXCEPT !.node_ids = Append(@, id.val),
                       !.nodes = Append(@, Node_new(id.val, data.val)) ]

RECURSIVE tgf_edge_tokens(_, _, _, _)
(* the tokens of a line after the separator, i counted from 0 *)
tgf_edge_tokens(st, toks, i, node_index) ==
  IF toks = << >> THEN st
  ELSE LET path == parse_usize(Head(toks))
       IN  IF ~ path.ok THEN tgf_stop(st, "Panic")
           ELSE IF i = 0 THEN tgf_edge_tokens(st, Tail(toks), i + 1, path.val)
           ELSE IF ~ vec_contains(st.node_ids, path.val) THEN tgf_stop(st, "TgfError")
           ELSE tgf_edge_tokens(
                  IF node_index < Len(st.nodes)
                  THEN [ st EXCEPT !.nodes[node_index + 1].paths = add_path(@, path.val) ]
                  ELSE st,
                  Tail(toks), i + 1, node_index)

tgf_line(st, item) ==
  IF item = << "#" >> THEN [ st EXCEPT !.after = FALSE ]
  ELSE IF st.after THEN tgf_node_line(st, item)
  ELSE tgf_edge_tokens(st, split_whitespace(item), 0, 0)

RECURSIVE tgf_loop(_, _)
tgf_loop(st, ls) ==
  IF ls = << >> \/ st.kind # "Run" THEN st ELSE tgf_loop(tgf_line(st, Head(ls)), Tail(ls))

RECURSIVE max_id(_, _)
(* the loop that computes next_id from node_ids *)
max_id(ids, acc) ==
  IF ids = << >> THEN acc
  ELSE max_id(Tail(ids), IF Head(ids) > acc THEN Head(ids) ELSE acc)

(* from_tgf_file that takes the number of nodes as next_id *)
from_tgf_file_len(file) ==
  IF file = NoFile THEN Result("IoError", << >>, Graph_new)
  ELSE LET st == tgf_loop(tgf_start, lines(file))
       IN  IF st.kind = "Run"
           THEN Result("Ok", << >>, Graph(Len(st.nodes), st.nodes))
           ELSE Result(st.kind, << >>, Graph_new)

from_tgf_file(file) ==
  IF file = NoFile THEN Result("IoError", << >>, Graph_new)
  ELSE LET st == tgf_loop(tgf_start, lines(file))
       IN  IF st.kind = "Run"
           THEN Result("Ok", << >>, Graph(max_id(st.node_ids, 0) + 1, st.nodes))
           ELSE Result(st.kind, << >>, Graph_new)

(***************************************************************************)
(* Graph::get_tgf                                                          *)
(***************************************************************************)
get_tgf_node(node) ==
  fmt_usize(node.id) \o << " " >> \o json_to_string(node.data) \o << "\n" >>

RECURSIVE fmt_paths(_)
fmt_paths(paths) ==
  IF paths = << >> THEN << >>
  ELSE << " " >> \o fmt_usize(Head(paths)) \o fmt_paths(Tail(paths))

(* get_tgf_paths that writes a line for a node without adjacency too *)
get_tgf_paths_always(node) ==
  fmt_usize(node.id) \o fmt_paths(node.paths) \o << "\n" >>

get_tgf_paths(node) ==
  IF Len(node.paths) > 0
  THEN fmt_usize(node.id) \o fmt_paths(node.paths) \o << "\n" >>
  ELSE << >>

RECURSIVE concat_map_node(_)
concat_map_node(ns) ==
  IF ns = << >> THEN << >> ELSE get_tgf_node(Head(ns)) \o concat_map_node(Tail(ns))

RECURSIVE concat_map_paths(_)
concat_map_paths(ns) ==
  IF ns = << >> THEN << >> ELSE get_tgf_paths(Head(ns)) \o concat_map_paths(Tail(ns))

get_tgf(g) == concat_map_node(g.nodes) \o << "#", "\n" >> \o concat_map_paths(g.nodes)

(***************************************************************************)
(* Graph::node_ids and Graph::dfs.  nodes.get(id).unwrap() panics when id  *)
(* is not a position of the vector; Panicked stands for that outcome.      *)
(***************************************************************************)
Panicked == << -1 >>

RECURSIVE dfs(_, _, _)
RECURSIVE dfs_paths(_, _, _)

(* the for loop of dfs over the cloned adjacency list *)
dfs_paths(ns, paths, visited) ==
  IF visited = Panicked \/ paths = << >> THEN visited
  ELSE dfs_paths(ns, Tail(paths),
                 IF ~ vec_contains(visited, Head(paths))
                 THEN dfs(ns, Head(paths), visited)
                 ELSE visited)

Reverse(s) == [ i \in 1 .. Len(s) |-> s[Len(s) + 1 - i] ]

(* dfs that walks the adjacency list from its end *)
dfs_reversed(ns, id, visited) ==
  IF id >= Len(ns) THEN Panicked
  ELSE dfs_paths(ns, Reverse(ns[id + 1].paths), Append(visited, id))

(* dfs with if let Some(node) = nodes.get(id) in place of the unwrap *)
dfs_unchecked(ns, id, visited) ==
  IF id >= Len(ns) THEN Append(visited, id)
  ELSE dfs_paths(ns, ns[id + 1].paths, Append(visited, id))

dfs(ns, id, visited) ==
  IF id >= Len(ns) THEN Panicked
  ELSE dfs_paths(ns, ns[id + 1].paths, Append(visited, id))

node_ids(g) == dfs(g.nodes, 0, << >>)

(* Graph::get_data and Graph::get_adjacent_ids index the vector by id *)
PanickedData == << "panicked" >>

get_data(g, id) == IF id >= Len(g.nodes) THEN PanickedData ELSE g.nodes[id + 1].data

get_adjacent_ids(g, id) == IF id >= Len(g.nodes) THEN Panicked ELSE g.nodes[id + 1].paths

(***************************************************************************)
(* The files from_tgf_file is run on: every sequence of at most            *)
(* MaxFileLines lines drawn from FileLines, and the missing file.          *)
(***************************************************************************)
FileLines ==
  { << "0", " ", "\"", "c", "\"" >>, << "1", " ", "\"", "\\", "\"", "\"" >>,
    << "#" >>,
    << "0", " ", "1" >>, << "1", " ", "0", " ", "1", " ", "0" >>, << "0", " ", "2" >>,
    << "x" >> }

RECURSIVE join_lines(_)
join_lines(ls) ==
  IF ls = << >> THEN << >> ELSE Head(ls) \o << "\n" >> \o join_lines(Tail(ls))

Files ==
  { NoFile } \cup
  { join_lines(ls) : ls \in UNION { [ 1 .. n -> FileLines ] : n \in 0 .. MaxFileLines } }

(***************************************************************************)
(* State machine.  next_id and nodes are the fields of the container; live *)
(* says that the program holds a container; op and ret are the last call   *)
(* and what it returned (op.file is the text from_tgf_file read).  ever is *)
(* a history variable: the identifiers ever assigned in this container.    *)
(* walk is a node_ids call followed one dfs step at a time: its call       *)
(* stack, its visited vector and the identifiers dfs was called with.      *)
(***************************************************************************)
G == Graph(next_id, nodes)

EdgeCount(ns) == LET RECURSIVE sum(_)
                     sum(s) == IF s = << >> THEN 0 ELSE Len(Head(s).paths) + sum(Tail(s))
                 IN  sum(ns)

Call(name, file) == [ name |-> name, file |-> file ]

NodeIdSet(ns) == { ns[i].id : i \in 1 .. Len(ns) }

walk_idle == [ pc |-> "idle", frames |-> << >>, visited |-> << >>, calls |-> << >> ]

(* dfs that recurses without looking at visited *)
dfs_recurses_always(visited, path) == TRUE

(* the test of dfs before it recurses *)
dfs_recurses(visited, path) == ~ vec_contains(visited, path)

(* entry of dfs(id): push the identifier, then unwrap the node at position
   id and clone its adjacency list for the loop *)
dfs_enter(w, ns, id) ==
  IF id >= Len(ns)
  THEN [ pc |-> "panic", frames |-> << >>,
         visited |-> Append(w.visited, id), calls |-> Append(w.calls, id) ]
  ELSE [ pc |-> "run",
         frames |-> Append(w.frames, [ id |-> id, rest |-> ns[id + 1].paths ]),
         visited |-> Append(w.visited, id), calls |-> Append(w.calls, id) ]

Init ==
  /\ walk = walk_idle
  /\ next_id = Graph_new.next_id
  /\ nodes = Graph_new.nodes
  /\ live = TRUE
  /\ op = Call("new", << >>)
  /\ ret = [ kind |-> "Ok", val |-> << >> ]
  /\ ever = {}

Return(r) ==
  /\ next_id' = r.g.next_id
  /\ nodes' = r.g.nodes
  /\ ret' = [ kind |-> r.kind, val |-> r.val ]

(* the program builds its container from a file instead of with new() *)
FromTgfFile ==
  /\ walk.pc = "idle" /\ UNCHANGED walk
  /\ op.name = "new"
  /\ \E file \in Files :
       LET r == from_tgf_file(file)
       IN  /\ Return(r)
           /\ op' = Call("from_tgf_file", file)
           /\ live' = (r.kind = "Ok")
           /\ ever' = NodeIdSet(r.g.nodes)

AddNode ==
  /\ walk.pc = "idle" /\ UNCHANGED walk
  /\ live
  /\ Len(nodes) < MaxNodes
  /\ next_id < MaxNextId
  /\ \E data \in Data :
       LET r == add_node(G, data)
       IN  /\ Return(r)
           /\ op' = Call("add_node", << >>)
           /\ ever' = ever \cup { r.val[1] }
  /\ UNCHANGED live

RemoveNode ==
  /\ walk.pc = "idle" /\ UNCHANGED walk
  /\ live
  /\ \E node_id \in Ids :
       /\ Return(remove_node(G, node_id))
       /\ op' = Call("remove_node", << >>)
  /\ UNCHANGED << live, ever >>

AddEdge ==
  /\ walk.pc = "idle" /\ UNCHANGED walk
  /\ live
  /\ \E from \in Ids, to \in Ids :
       LET r == add_edge(G, from, to)
       IN  /\ EdgeCount(r.g.nodes) <= MaxEdges \/ r.g = G
           /\ Return(r)
           /\ op' = Call("add_edge", << >>)
  /\ UNCHANGED << live, ever >>

RemoveEdge ==
  /\ walk.pc = "idle" /\ UNCHANGED walk
  /\ live
  /\ \E from \in Ids, to \in Ids :
       /\ Return(remove_edge(G, from, to))
       /\ op' = Call("remove_edge", << >>)
  /\ UNCHANGED << live, ever >>

(* node_ids: a failed unwrap ends the program *)
NodeIds ==
  /\ walk.pc = "idle" /\ UNCHANGED walk
  /\ live
  /\ LET visited == node_ids(G)
     IN  /\ ret' = IF visited = Panicked
                   THEN [ kind |-> "Panic", val |-> << >> ]
                   ELSE [ kind |-> "Ok", val |-> visited ]
         /\ live' = (visited # Panicked)
  /\ op' = Call("node_ids", << >>)
  /\ UNCHANGED << next_id, nodes, ever >>

GetTgf ==
  /\ walk.pc = "idle" /\ UNCHANGED walk
  /\ live
  /\ ret' = [ kind |-> "Ok", val |-> get_tgf(G) ]
  /\ op' = Call("get_tgf", << >>)
  /\ UNCHANGED << next_id, nodes, live, ever >>

Next ==
  \/ FromTgfFile
  \/ AddNode
  \/ RemoveNode
  \/ AddEdge
  \/ RemoveEdge
  \/ NodeIds
  \/ GetTgf

Spec == Init /\ [][Next]_vars

(***************************************************************************)
(* node_ids followed step by step on the containers that add_node and      *)
(* add_edge build.  The program is sequential: nothing else runs during    *)
(* the call, and a call that has begun goes on until it returns or panics. *)
(***************************************************************************)
NodeIdsCall ==
  /\ live /\ walk.pc = "idle"
  /\ walk' = dfs_enter(walk_idle, nodes, 0)
  /\ UNCHANGED << next_id, nodes, live, op, ret, ever >>

(* one turn of the for loop in the innermost dfs *)
DfsLoop ==
  /\ walk.pc = "run"
  /\ LET top  == walk.frames[Len(walk.frames)]
         w    == [ walk EXCEPT !.frames[Len(walk.frames)].rest = Tail(@) ]
     IN  /\ top.rest # << >>
         /\ walk' = IF dfs_recurses(walk.visited, Head(top.rest))
                    THEN dfs_enter(w, nodes, Head(top.rest))
                    ELSE w
  /\ UNCHANGED << next_id, nodes, live, op, ret, ever >>

(* the loop of the innermost dfs is over: it returns, and when it was
   dfs(0), node_ids returns visited *)
DfsReturn ==
  /\ walk.pc = "run"
  /\ walk.frames[Len(walk.frames)].rest = << >>
  /\ walk' = [ walk EXCEPT !.frames = SubSeq(@, 1, Len(@) - 1),
                           !.pc = IF Len(walk.frames) = 1 THEN "done" ELSE "run" ]
  /\ UNCHANGED << next_id, nodes, live, op, ret, ever >>

NextDfs ==
  \/ AddNode
  \/ AddEdge
  \/ NodeIdsCall
  \/ DfsLoop
  \/ DfsReturn

SpecDfs ==
  Init /\ [][NextDfs]_vars /\ WF_vars(DfsLoop) /\ WF_vars(DfsReturn)

(***************************************************************************)
(* Properties.                                                             *)
(***************************************************************************)
Present(id) == contains(nodes, id)

PathsOf(ns, id) == ns[position(ns, id)].paths

HasEdge(ns, from, to) == contains(ns, from) /\ vec_contains(PathsOf(ns, from), to)

NoDanglingIn(ns) ==
  \A i \in 1 .. Len(ns) : \A k \in 1 .. Len(ns[i].paths) : contains(ns, ns[i].paths[k])

(* C1: in every reachable state of a container built by new() or by a
   successful from_tgf_file and changed by add_node, remove_node, add_edge
   and remove_edge calls, successful or failing, every identifier in an
   adjacency list is the identifier of a node of the container. *)
C1_AdjacencyReferencesPresent == live => NoDanglingIn(nodes)

(* a node with incoming edges has just been removed and edges remain; or a
   file with edge lines has just been loaded *)
C1_Witness ==
  \/ /\ op.name = "remove_node" /\ ret.kind = "Ok"
     /\ ever # NodeIdSet(nodes) /\ EdgeCount(nodes) >= 2
  \/ /\ op.name = "from_tgf_file" /\ ret.kind = "Ok" /\ EdgeCount(nodes) >= 2

(* C2: after a successful remove_node(id) no node with identifier id is
   left and id is in no adjacency list of a remaining node, also when the
   removed node had a self-loop or incoming edges from several nodes. *)
C2_RemoveNodeClean ==
  live =>
    \A id \in Ids :
      LET r == remove_node(G, id)
      IN  r.kind = "Ok" =>
            /\ ~ contains(r.g.nodes, id)
            /\ \A i \in 1 .. Len(r.g.nodes) : ~ vec_contains(r.g.nodes[i].paths, id)
            /\ Len(r.g.nodes) = Len(nodes) - 1

(* remove_node has just succeeded on a container that still holds a node
   with a self-loop and an incoming edge, one that remove_node succeeds on *)
C2_Witness ==
  /\ live /\ op.name = "remove_node" /\ ret.kind = "Ok"
  /\ \E id \in Ids, a \in Ids :
       /\ a # id /\ HasEdge(nodes, id, id) /\ HasEdge(nodes, a, id)
       /\ remove_node(G, id).kind = "Ok"

(* C3: next_id is strictly greater than the identifier of every node of
   the container and of every node it ever held (made by add_node or loaded
   from the file), also after remove_node calls, so add_node never returns
   an identifier that was assigned before. *)
C3_NextIdAboveEveryAssignedId ==
  live =>
    /\ \A id \in NodeIdSet(nodes) \cup ever : id < next_id
    /\ \A data \in Data : add_node(G, data).val[1] \notin ever
    /\ NodeIdSet(nodes) \subseteq ever

(* add_node has just returned while an identifier freed by remove_node
   exists *)
C3_Witness ==
  /\ live /\ op.name = "add_node"
  /\ \E id \in ever : id \notin NodeIdSet(nodes) /\ id < ret.val[1]

(* C4: the identifiers of the nodes of the container are pairwise
   distinct in every reachable state. *)
C4_NodeIdsDistinct ==
  live => \A i \in 1 .. Len(nodes), k \in 1 .. Len(nodes) :
            nodes[i].id = nodes[k].id => i = k

(* add_node has just appended a node to a container from which a node
   had been removed *)
C4_Witness ==
  /\ live /\ op.name = "add_node" /\ Len(nodes) = 2
  /\ Cardinality(ever) = 3

IdNotExistIff(r, absent) ==
  /\ r.kind \in { "Ok", "IdNotExist" }
  /\ r.kind = "IdNotExist" <=> absent
  /\ r.kind = "IdNotExist" => r.g = G

(* C5: add_edge, remove_edge and remove_node return IdNotExist exactly when
   an identifier they are given is not the identifier of a node of the
   container, and then next_id, the node sequence, the payloads and the
   adjacency lists are what they were before the call. *)
C5_IdNotExistExactlyWhenAbsent ==
  /\ [](live =>
          \A from \in Ids, to \in Ids :
            /\ IdNotExistIff(add_edge(G, from, to), ~ Present(from) \/ ~ Present(to))
            /\ IdNotExistIff(remove_edge(G, from, to), ~ Present(from) \/ ~ Present(to))
            /\ IdNotExistIff(remove_node(G, from), ~ Present(from)))
  /\ [][ ret'.kind = "IdNotExist" =>
           /\ op'.name \in { "add_edge", "remove_edge", "remove_node" }
           /\ next_id' = next_id /\ nodes' = nodes /\ live' = live ]_vars

(* a call has just returned IdNotExist on a container with nodes and
   edges, where one of the identifiers of a failing call is present *)
C5_Witness ==
  /\ live /\ ret.kind = "IdNotExist" /\ op.name = "add_edge"
  /\ Len(nodes) >= 2 /\ EdgeCount(nodes) >= 1
  /\ \E from \in Ids, to \in Ids :
       Present(from) /\ ~ Present(to) /\ add_edge(G, from, to).kind = "IdNotExist"

(* C6: for identifiers a and b of nodes of the container, a = b included,
   add_edge(a, b) called twice in a row leaves the container as one call
   leaves it, and both calls return success. *)
C6_AddEdgeIdempotent ==
  live =>
    \A a \in Ids, b \in Ids :
      Present(a) /\ Present(b) =>
        LET once  == add_edge(G, a, b)
            twice == add_edge(once.g, a, b)
        IN  once.kind = "Ok" /\ twice.kind = "Ok" /\ twice.g = once.g

(* add_edge has just succeeded and the container holds a self-loop and an
   edge between two nodes *)
C6_Witness ==
  /\ live /\ op.name = "add_edge" /\ ret.kind = "Ok"
  /\ \E a \in Ids, b \in Ids : a # b /\ HasEdge(nodes, a, a) /\ HasEdge(nodes, a, b)

NoDup(s) == \A i \in 1 .. Len(s), k \in 1 .. Len(s) : s[i] = s[k] => i = k

IndexIn(s, x) == CHOOSE i \in 1 .. Len(s) : s[i] = x /\ \A k \in 1 .. i - 1 : s[k] # x

(* paths holds each element of inserted once, in the order in which the
   elements first occur in inserted *)
InFirstInsertionOrder(paths, inserted) ==
  /\ NoDup(paths)
  /\ Range(paths) = Range(inserted)
  /\ \A i \in 1 .. Len(paths), k \in 1 .. Len(paths) :
       i < k => IndexIn(inserted, paths[i]) < IndexIn(inserted, paths[k])

RECURSIVE edge_targets(_, _, _)
(* the targets that the lines after the separator name for the source
   token p, in file order *)
edge_targets(ls, seen_separator, p) ==
  IF ls = << >> THEN << >>
  ELSE IF Head(ls) = << "#" >> THEN edge_targets(Tail(ls), TRUE, p)
  ELSE IF ~ seen_separator THEN edge_targets(Tail(ls), FALSE, p)
  ELSE LET toks == split_whitespace(Head(ls))
       IN  (IF toks # << >> /\ parse_usize(toks[1]).val = p
            THEN [ i \in 1 .. Len(toks) - 1 |-> parse_usize(toks[i + 1]).val ]
            ELSE << >>) \o edge_targets(Tail(ls), TRUE, p)

(* new keeps the targets of old that it still holds in their order, and
   holds the targets that old did not hold after them *)
KeepsInsertionOrder(old, new) ==
  \A i \in 1 .. Len(new), k \in 1 .. Len(new) :
    i < k =>
      /\ vec_contains(old, new[k]) => vec_contains(old, new[i])
      /\ vec_contains(old, new[i]) /\ vec_contains(old, new[k])
           => IndexIn(old, new[i]) < IndexIn(old, new[k])

(* C7: in every reachable state, after any sequence of mutations and after
   loading a file whose edge lines repeat a target, each adjacency list
   holds every target at most once and the targets are in insertion order:
   a load leaves the targets named for a position in the order of their
   first occurrence in the file, a mutation keeps the order of the targets
   that stay and puts a target it inserts last, and a new node starts with
   an empty list. *)
C7_AdjacencyDuplicateFreeInInsertionOrder ==
  [][ live' =>
        /\ \A i \in 1 .. Len(nodes') : NoDup(nodes'[i].paths)
        /\ op'.name = "from_tgf_file" =>
             \A i \in 1 .. Len(nodes') :
               InFirstInsertionOrder(nodes'[i].paths,
                                     edge_targets(lines(op'.file), FALSE, i - 1))
        /\ op'.name # "from_tgf_file" =>
             \A id \in NodeIdSet(nodes') :
               IF Present(id)
               THEN KeepsInsertionOrder(PathsOf(nodes, id), PathsOf(nodes', id))
               ELSE PathsOf(nodes', id) = << >> ]_vars

(* a file whose edge lines repeat a target has just been loaded, and the
   list those lines fill holds two targets *)
C7_Witness ==
  /\ live /\ op.name = "from_tgf_file"
  /\ \E i \in 1 .. Len(nodes) :
       /\ Len(nodes[i].paths) >= 2
       /\ Len(edge_targets(lines(op.file), FALSE, i - 1)) > Len(nodes[i].paths)

(* C8: for identifiers a and b of nodes of the container with b not in
   a's adjacency list, remove_edge(a, b) returns success and leaves the
   whole container unchanged. *)
C8_RemoveAbsentEdgeIsNoOp ==
  live =>
    \A a \in Ids, b \in Ids :
      Present(a) /\ Present(b) /\ ~ HasEdge(nodes, a, b) =>
        remove_edge(G, a, b) = Result("Ok", << >>, G)

(* remove_edge has just succeeded and there is a node with a non-empty
   adjacency list that does not hold the identifier of some other node *)
C8_Witness ==
  /\ live /\ op.name = "remove_edge" /\ ret.kind = "Ok"
  /\ \E a \in Ids, b \in Ids :
       /\ Present(a) /\ Present(b) /\ ~ HasEdge(nodes, a, b)
       /\ Len(PathsOf(nodes, a)) >= 2

(* the node at position i has identifier i *)
Positional(g) == \A i \in 1 .. Len(g.nodes) : g.nodes[i].id = i - 1

(* C9 as claimed: for a container whose identifiers are 0, 1, 2, ... in
   storage order, parsing the text of get_tgf gives a container equal to it
   in next_id and in the node sequence. *)
C9_RoundTripIdentity ==
  live /\ Positional(G) => from_tgf_file(get_tgf(G)) = Result("Ok", << >>, G)

(* C9 as amended: for such a container, parsing the text of get_tgf
   succeeds and gives the same node sequence (identifiers, order, payloads,
   adjacency lists); next_id is computed from the text, the number of nodes
   or 1 when there is none, and so is the container's next_id only when
   that had this value. *)
C9_RoundTripNodeSequence ==
  live /\ Positional(G) =>
    LET r == from_tgf_file(get_tgf(G))
    IN  /\ r.kind = "Ok"
        /\ r.g.nodes = nodes
        /\ r.g.next_id = (IF nodes = << >> THEN 1 ELSE Len(nodes))
        /\ op.name = "get_tgf" => from_tgf_file(ret.val) = r

(* get_tgf has just returned the text of a container with identifiers 0
   and 1, edges, a payload that is escaped, and, its last node having been
   removed, a next_id above the one that parsing the text gives *)
C9_Witness ==
  /\ live /\ op.name = "get_tgf" /\ Positional(G)
  /\ Len(nodes) = 2 /\ EdgeCount(nodes) >= 2
  /\ \E i \in 1 .. Len(nodes) : nodes[i].data = << "\"" >>
  /\ from_tgf_file(ret.val).kind = "Ok"
  /\ from_tgf_file(ret.val).g.next_id < next_id

RECURSIVE reach(_, _)
(* the identifiers reachable from the set S along adjacency entries *)
reach(ns, S) ==
  LET T == S \cup { w \in NodeIdSet(ns) : \E v \in S : HasEdge(ns, v, w) }
  IN  IF T = S THEN S ELSE reach(ns, T)

RECURSIVE preorder(_, _, _)
(* depth-first pre-order by identifier with an explicit stack of
   << identifier, next index in its adjacency list >> *)
preorder(ns, stack, visited) ==
  IF stack = << >> THEN visited
  ELSE LET top  == stack[Len(stack)]
           rest == SubSeq(stack, 1, Len(stack) - 1)
           adj  == PathsOf(ns, top[1])
       IN  IF top[2] > Len(adj) THEN preorder(ns, rest, visited)
           ELSE LET w    == adj[top[2]]
                    next == Append(rest, << top[1], top[2] + 1 >>)
                IN  IF vec_contains(visited, w) THEN preorder(ns, next, visited)
                    ELSE preorder(ns, Append(next, << w, 1 >>), Append(visited, w))

(* C10: when the node at position i has identifier i and node 0 exists,
   node_ids() returns exactly the identifiers reachable from node 0, in
   depth-first pre-order following each adjacency list in insertion order;
   nodes not reachable from 0 are left out. *)
C10_NodeIdsIsPreorderOfReachable ==
  live /\ Positional(G) /\ Present(0) =>
    LET visited == node_ids(G)
    IN  /\ visited # Panicked
        /\ visited = preorder(nodes, << << 0, 1 >> >>, << 0 >>)
        /\ Range(visited) = reach(nodes, { 0 })
        /\ NoDup(visited)
        /\ op.name = "node_ids" => ret = [ kind |-> "Ok", val |-> visited ]

(* node_ids has just returned on a container of three nodes where the
   adjacency order makes node 2 come before node 1 *)
C10_Witness ==
  /\ live /\ op.name = "node_ids" /\ Positional(G) /\ Len(nodes) = 3
  /\ ret.val = << 0, 2, 1 >> /\ HasEdge(nodes, 0, 1) /\ HasEdge(nodes, 0, 2)

(* C11: in every reachable state in which node_ids() returns a result, the
   result holds no identifier twice and is not longer than the number of
   nodes of the container. *)
C11_NodeIdsDuplicateFreeAndBounded ==
  live /\ node_ids(G) # Panicked =>
    /\ NoDup(node_ids(G))
    /\ Len(node_ids(G)) <= Len(nodes)
    /\ op.name = "node_ids" => ret = [ kind |-> "Ok", val |-> node_ids(G) ]

(* node_ids has just returned two identifiers on a container whose nodes
   are not at the positions of their identifiers and that holds a
   self-loop and another edge *)
C11_Witness ==
  /\ live /\ op.name = "node_ids" /\ ret.kind = "Ok"
  /\ ~ Positional(G) /\ Len(ret.val) = 2 /\ EdgeCount(nodes) >= 2
  /\ \E a \in Ids : HasEdge(nodes, a, a)

(* C12: node_ids() terminates on every container where the node at
   position i has identifier i and node 0 exists, cycles and self-loops
   included: an identifier that is in the visited sequence is never pushed
   or recursed into again, so dfs is called at most once per node. *)
C12_NodeIdsTerminates ==
  /\ [](walk.pc # "idle" /\ Positional(G) /\ Present(0) =>
          /\ walk.pc # "panic"
          /\ NoDup(walk.calls) /\ NoDup(walk.visited)
          /\ Len(walk.calls) <= Len(nodes)
          /\ walk.pc = "done" => walk.visited = node_ids(G))
  /\ (walk.pc = "run" /\ Positional(G) /\ Present(0)) ~> (walk.pc = "done")

(* a node_ids call has returned on a container of three nodes with a
   self-loop on node 0 and an edge from node 0 to node 1 *)
C12_Witness ==
  /\ walk.pc = "done" /\ walk.visited = << 0, 1 >>
  /\ HasEdge(nodes, 0, 0) /\ HasEdge(nodes, 0, 1) /\ Len(nodes) = 3

(***************************************************************************)
(* What a file says, read off its lines.                                   *)
(***************************************************************************)
Loaded == op.name = "from_tgf_file" /\ op.file # NoFile

(* the index of the first separator line, Len + 1 when there is none *)
SeparatorIndex(ls) ==
  IF \E i \in 1 .. Len(ls) : ls[i] = << "#" >>
  THEN CHOOSE i \in 1 .. Len(ls) :
         ls[i] = << "#" >> /\ \A k \in 1 .. i - 1 : ls[k] # << "#" >>
  ELSE Len(ls) + 1

(* the line is digits, a whitespace character and a rest *)
IsNodeLine(l) == re_node_captures(l).ok

NodeLineId(l) == parse_usize(re_node_captures(l).c1).val

(* the indices of the second of two node lines with the same identifier *)
DuplicateLines(ls) ==
  { k \in 1 .. SeparatorIndex(ls) - 1 :
      /\ IsNodeLine(ls[k])
      /\ \E i \in 1 .. k - 1 : IsNodeLine(ls[i]) /\ NodeLineId(ls[i]) = NodeLineId(ls[k]) }

(* C13: from_tgf_file on a file in which two node lines before the
   separator carry the same identifier returns TgfError at the second of
   those lines, before a separator or an edge line is processed, and
   gives no container. *)
C13_DuplicateIdIsTgfError ==
  Loaded /\ DuplicateLines(lines(op.file)) # {} =>
    /\ ret.kind = "TgfError"
    /\ ~ live
    /\ tgf_loop(tgf_start, lines(op.file)).after

(* the identifiers of the node lines before the separator *)
DeclaredIds(ls) ==
  { NodeLineId(ls[i]) : i \in { k \in 1 .. SeparatorIndex(ls) - 1 : IsNodeLine(ls[k]) } }

(* the edge lines: the lines after the first separator, later separators
   left out *)
EdgeLines(ls) ==
  { k \in SeparatorIndex(ls) + 1 .. Len(ls) : ls[k] # << "#" >> }

(* the identifiers an edge line names as targets: its numeric tokens after
   the first *)
LineTargets(l) ==
  LET toks == split_whitespace(l)
  IN { parse_usize(toks[i]).val : i \in { k \in 2 .. Len(toks) : parse_usize(toks[k]).ok } }

UndeclaredTarget(ls) ==
  \E k \in EdgeLines(ls) : \E t \in LineTargets(ls[k]) : t \notin DeclaredIds(ls)

(* C14: from_tgf_file on a file whose edge section names as a target an
   identifier that no node line before the separator declared returns
   TgfError and gives no container. *)
C14_UndeclaredTargetIsTgfError ==
  Loaded /\ UndeclaredTarget(lines(op.file)) => ret.kind = "TgfError" /\ ~ live

(* a node line that does not match, a payload that does not decode, or an
   edge token that is not a number *)
MalformedLine(ls) ==
  \/ \E k \in 1 .. SeparatorIndex(ls) - 1 :
       \/ ~ IsNodeLine(ls[k])
       \/ ~ json_from_str(re_node_captures(ls[k]).c2).ok
  \/ \E k \in EdgeLines(ls) :
       \E i \in 1 .. Len(split_whitespace(ls[k])) :
         ~ parse_usize(split_whitespace(ls[k])[i]).ok

(* C15: every failure of from_tgf_file is a returned error value, never a
   crash, and a file with a malformed line makes it return TgfError. *)
C15_MalformedLineIsTgfError ==
  op.name = "from_tgf_file" =>
    /\ ret.kind # "Panic"
    /\ Loaded /\ MalformedLine(lines(op.file)) => ret.kind = "TgfError" /\ ~ live

(* C16: after a successful from_tgf_file, next_id is the largest
   identifier of the node lines plus one when the file declares a node,
   and 0 when it declares none. *)
C16_NextIdAfterLoad ==
  Loaded /\ ret.kind = "Ok" =>
    LET ids == DeclaredIds(lines(op.file))
    IN IF ids # {}
       THEN \E m \in ids : next_id = m + 1 /\ \A k \in ids : k <= m
       ELSE next_id = 0

(* the targets the edge lines with first token s name *)
TargetsFrom(ls, s) ==
  UNION { LineTargets(ls[k]) :
            k \in { e \in EdgeLines(ls) :
                      /\ split_whitespace(ls[e]) # << >>
                      /\ parse_usize(split_whitespace(ls[e])[1]).ok
                      /\ parse_usize(split_whitespace(ls[e])[1]).val = s } }

(* C17: for a file whose node lines carry distinct identifiers in any
   order, after a successful from_tgf_file the adjacency list of the node
   with identifier s holds the targets of the edge lines that start with s,
   and no other node gains an edge from such a line. *)
C17_EdgeLineSourceIsIdentifier ==
  Loaded /\ ret.kind = "Ok" =>
    \A s \in NodeIdSet(nodes) :
      Range(PathsOf(nodes, s)) = TargetsFrom(lines(op.file), s)

(* the nodes that have at least one adjacency entry, in storage order *)
WithAdjacency(ns) == SelectSeq(ns, LAMBDA n : n.paths # << >>)

(* tokens separated by single spaces, none at either end *)
SingleSpaced(l) ==
  \A p \in 1 .. Len(l) :
    l[p] = " " => p > 1 /\ p < Len(l) /\ l[p + 1] # " "

(* the text is the node lines, the separator, and the edge lines of the
   nodes with adjacency *)
TgfLayout(text, ns) ==
  LET L == lines(text)
      n == Len(ns)
      E == WithAdjacency(ns)
  IN /\ text = join_lines(L)
     /\ Len(L) = n + 1 + Len(E)
     /\ \A i \in 1 .. n :
          L[i] = fmt_usize(ns[i].id) \o << " " >> \o json_to_string(ns[i].data)
     /\ L[n + 1] = << "#" >>
     /\ \A j \in 1 .. Len(E) :
          LET toks == split_whitespace(L[n + 1 + j])
          IN /\ SingleSpaced(L[n + 1 + j])
             /\ Len(toks) = 1 + Len(E[j].paths)
             /\ toks[1] = fmt_usize(E[j].id)
             /\ \A k \in 1 .. Len(E[j].paths) : toks[k + 1] = fmt_usize(E[j].paths[k])

(* the container and the text of tests::tgf *)
TgfTestNodes ==
  << [ id |-> 0, data |-> << "c", "a", "t" >>, paths |-> << 1, 2 >> ],
     [ id |-> 1, data |-> << "c", "a", "r" >>, paths |-> << >> ],
     [ id |-> 2, data |-> << "c", "o", "w" >>, paths |-> << 0 >> ] >>

TgfTestText ==
  << "0", " ", "\"", "c", "a", "t", "\"", "\n",
     "1", " ", "\"", "c", "a", "r", "\"", "\n",
     "2", " ", "\"", "c", "o", "w", "\"", "\n",
     "#", "\n",
     "0", " ", "1", " ", "2", "\n",
     "2", " ", "0", "\n" >>

(* C18: get_tgf writes one line `<id> <encoded payload>` per node in
   storage order, then the separator line `#`, then in storage order one
   line `<id> <target> ...` with the targets in adjacency order for each
   node that has adjacency, and no line for a node with empty adjacency. *)
C18_GetTgfLayout ==
  /\ live => TgfLayout(get_tgf(G), nodes)
  /\ op.name = "get_tgf" => ret.val = get_tgf(G)
  /\ get_tgf(Graph(3, TgfTestNodes)) = TgfTestText

C18_Witness ==
  /\ op.name = "get_tgf"
  /\ Len(nodes) = 3
  /\ nodes[1].paths # << >> /\ nodes[2].paths = << >> /\ nodes[3].paths # << >>
  /\ ret.val = get_tgf(G)
  /\ Len(lines(ret.val)) = 6

(***************************************************************************)
(* The containers built from new() without a successful remove_node:       *)
(* add_node with either payload, add_edge, remove_edge, and remove_node    *)
(* calls that fail.                                                        *)
(***************************************************************************)
Payloads == { << "c" >>, << "d" >> }

AddNodeAny ==
  /\ walk.pc = "idle" /\ UNCHANGED walk
  /\ live
  /\ Len(nodes) < MaxNodes
  /\ next_id < MaxNextId
  /\ \E data \in Payloads :
       LET r == add_node(G, data)
       IN  /\ Return(r)
           /\ op' = [ name |-> "add_node", file |-> << >>, data |-> data ]
           /\ ever' = ever \cup { r.val[1] }
  /\ UNCHANGED live

RemoveNodeFails ==
  /\ walk.pc = "idle" /\ UNCHANGED walk
  /\ live
  /\ \E node_id \in Ids :
       /\ ~ contains(nodes, node_id)
       /\ Return(remove_node(G, node_id))
       /\ op' = Call("remove_node", << >>)
  /\ UNCHANGED << live, ever >>

NextAlloc ==
  \/ AddNodeAny
  \/ AddEdge
  \/ RemoveEdge
  \/ RemoveNodeFails

SpecAlloc == Init /\ [][NextAlloc]_vars

(* C19: from new(), as long as no remove_node has succeeded, the node at
   position i has identifier i, so for an id returned by add_node
   get_data(id) is the payload passed to that call and get_adjacent_ids(id)
   is the adjacency list of the node with that identifier. *)
C19_PositionIsIdentifier ==
  /\ [](Positional(G) /\ Len(nodes) = next_id)
  /\ [][ /\ op'.name = "add_node" =>
              /\ ret'.val = << Len(nodes) >>
              /\ get_data(G', ret'.val[1]) = op'.data
              /\ get_adjacent_ids(G', ret'.val[1]) = << >>
         /\ \A id \in NodeIdSet(nodes) : get_data(G', id) = get_data(G, id)
         /\ \A id \in NodeIdSet(nodes') :
              get_adjacent_ids(G', id) = PathsOf(nodes', id) ]_vars

C19_Witness ==
  /\ Len(nodes) = 3
  /\ get_data(G, 0) = << "c" >> /\ get_data(G, 1) = << "d" >>
  /\ get_adjacent_ids(G, 1) = << 2 >>
  /\ get_adjacent_ids(G, 2) = << 1 >>
  /\ op.name = "remove_node" /\ ret.kind = "IdNotExist"

(***************************************************************************)
(* The containers built from new() alone: no file is loaded.               *)
(***************************************************************************)
NextNew ==
  \/ AddNode
  \/ RemoveNode
  \/ AddEdge
  \/ RemoveEdge
  \/ NodeIds

SpecNew == Init /\ [][NextNew]_vars

(* C20: from new(), after any add_node, remove_node, add_edge and
   remove_edge calls, whenever node_ids() returns a result every identifier
   in it is the identifier of a node present in the container. *)
C20_NodeIdsReturnsPresentIds ==
  /\ live /\ node_ids(G) # Panicked => Range(node_ids(G)) \subseteq NodeIdSet(nodes)
  /\ op.name = "node_ids" /\ ret.kind = "Ok" => Range(ret.val) \subseteq NodeIdSet(nodes)

====
